---- MODULE Spec2Model ----
(***************************************************************************)
(* Model of stitch_images.py: discovery of the GT / hazy / method folders, *)
(* per-cell image lookup and decoding, and the batch loop of create_grid.  *)
(*                                                                         *)
(* Strings the code inspects character by character (folder names, file    *)
(* names, paths) are sequences of one-character strings.  Python's None is *)
(* the value None below; the empty string is the empty sequence.           *)
(***************************************************************************)
EXTENDS Integers, Sequences, FiniteSets, TLC

VARIABLES
    pc,              \* position of the program
    root,            \* the entries of dataset_dir while the code lists it
    filenames,       \* create_grid argument
    custom_arg,      \* create_grid argument custom_folders as passed
    save_dir,        \* create_grid argument
    gt_folder,       \* create_grid local
    hazy_folder,     \* create_grid local
    custom_folders,  \* create_grid local after line 75
    folders,         \* create_grid local
    column_labels,   \* create_grid local
    batch_idx,       \* loop variable of line 86
    batch_filenames, \* create_grid local
    row,             \* loop variable of line 103 (0-based)
    col,             \* loop variable of line 104 (0-based)
    fig,             \* the figure of the current batch (None before the first)
    live,            \* figure numbers pyplot still holds
    nfigs,           \* number of figures created so far
    cell,            \* what the last cell body run on fig saw and drew
    made_dirs,       \* directories created by os.makedirs
    written,         \* files written by plt.savefig, in order
    shown,           \* figure numbers passed through plt.show()
    batches,         \* the batches formed so far, in order
    refused,         \* create_grid returned at line 72
    raised,          \* an exception left create_grid
    ret              \* record of a direct call of one of the helper functions

vars == <<pc, root, filenames, custom_arg, save_dir, gt_folder, hazy_folder,
          custom_folders, folders, column_labels, batch_idx, batch_filenames,
          row, col, fig, live, nfigs, cell, made_dirs, written, shown, batches,
          refused, raised, ret>>

(***************************************************************************)
(* Bounds of the model.                                                    *)
(***************************************************************************)
MaxFiles == 4      \* longest identifier list passed to create_grid
MaxEntries == 4    \* most entries in the dataset directory
MaxMissing == 1    \* most cells of one batch without a decodable image

(***************************************************************************)
(* Python values.                                                          *)
(***************************************************************************)
None == <<"None">>

NoneList == <<None>>

Truthy(s) == s # None /\ s # <<>>

Min(a, b) == IF a < b THEN a ELSE b

\* Code-point order of the characters that occur in the model.
AsciiOrder ==
    <<".", "/", "0", "1", "2", "3", "4", "5", "6", "7", "8", "9",
      "A", "B", "C", "D", "E", "G", "T", "[", "_",
      "a", "b", "c", "d", "e", "g", "h", "i", "j", "l", "n", "o", "p",
      "r", "s", "t", "u", "x", "y", "z">>

Ord(c) == CHOOSE i \in 1..Len(AsciiOrder) : AsciiOrder[i] = c

\* a < b for Python strings
RECURSIVE StrLess(_, _)
StrLess(a, b) ==
    IF b = <<>> THEN FALSE
    ELSE IF a = <<>> THEN TRUE
    ELSE IF Head(a) = Head(b) THEN StrLess(Tail(a), Tail(b))
    ELSE Ord(Head(a)) < Ord(Head(b))

startswith(s, p) == Len(s) >= Len(p) /\ SubSeq(s, 1, Len(p)) = p

endswith(s, p) ==
    Len(s) >= Len(p) /\ SubSeq(s, Len(s) - Len(p) + 1, Len(s)) = p

\* os.path.join of two components
join(a, b) == a \o <<"/">> \o b

RECURSIVE Insert(_, _)
Insert(x, s) ==
    IF s = <<>> THEN <<x>>
    ELSE IF StrLess(x, Head(s)) THEN <<x>> \o s
    ELSE <<Head(s)>> \o Insert(x, Tail(s))

RECURSIVE sorted(_)
sorted(s) == IF s = <<>> THEN <<>> ELSE Insert(Head(s), sorted(Tail(s)))

\* decimal digits of a natural number
RECURSIVE str(_)
str(n) ==
    LET d == <<"0", "1", "2", "3", "4", "5", "6", "7", "8", "9">>[(n % 10) + 1]
    IN  IF n < 10 THEN <<d>> ELSE str(n \div 10) \o <<d>>

\* the characters from code point 65 on
Letters ==
    <<"A", "B", "C", "D", "E", "F", "G", "H", "I", "J", "K", "L", "M", "N",
      "O", "P", "Q", "R", "S", "T", "U", "V", "W", "X", "Y", "Z", "[">>

chr(n) == Letters[n - 64]

(***************************************************************************)
(* Names.                                                                  *)
(***************************************************************************)
GT == <<"G", "T">>
hazy == <<"h", "a", "z", "y">>
b_hazy == <<"b", "_", "h", "a", "z", "y">>
results_1 == <<"r", "e", "s", "u", "l", "t", "s", "_", "1">>
xhazy == <<"x", "h", "a", "z", "y">>
suffix_hazy == <<"_", "h", "a", "z", "y">>
suffix_GT == <<"_", "G", "T">>
prefix_results == <<"r", "e", "s", "u", "l", "t", "s", "_">>
dataset_dir == <<"D">>
output_grids == <<"o", "u", "t">>
extensions == << <<".", "p", "n", "g">>, <<".", "j", "p", "g">>,
                 <<".", "j", "p", "e", "g">> >>

\* the first identifiers the entry point renders
MainFilenames ==
    << <<"0", "1">>, <<"0", "2">>, <<"0", "4">>, <<"0", "6">>, <<"0", "7">>,
       <<"1", "0">>, <<"1", "1">>, <<"1", "2">>, <<"1", "3">> >>

(***************************************************************************)
(* The environment: directory listings and the files of a folder.          *)
(***************************************************************************)
EntryNames == {GT, hazy, b_hazy, results_1, xhazy}

\* the entries of a dataset directory that holds nothing unexpected
DatasetNames == {GT, hazy, b_hazy, results_1}


\* the directories a caller may find in dataset_dir
Roots(ns) ==
    {r \in SUBSET [name : ns, isdir : BOOLEAN] :
        /\ Cardinality(r) <= MaxEntries
        /\ \A a, b \in r : a.name = b.name => a = b}

\* os.listdir(dataset_dir): the entries of r in an arbitrary order
listdir(r) ==
    {l \in [1..Cardinality(r) -> r] : \A e \in r : \E i \in DOMAIN l : l[i] = e}

IsDir(r, n) == [name |-> n, isdir |-> TRUE] \in r

\* lists a caller may pass as custom_folders
CallerLists == {NoneList, <<>>, <<results_1, b_hazy>>}

SaveDirs == {None, <<>>, output_grids}

(***************************************************************************)
(* find_custom_folders                                                     *)
(***************************************************************************)
RECURSIVE CustomScan(_)
CustomScan(l) ==
    IF l = <<>> THEN <<>>
    ELSE LET item == Head(l).name
         IN  IF /\ Head(l).isdir
                /\ endswith(item, suffix_hazy) \/ startswith(item, prefix_results)
                /\ item # hazy
             THEN <<item>> \o CustomScan(Tail(l))
             ELSE CustomScan(Tail(l))

find_custom_folders_unsorted(l) == CustomScan(l)

find_custom_folders(l) == sorted(CustomScan(l))

(***************************************************************************)
(* find_gt_hazy_folders                                                    *)
(***************************************************************************)
RECURSIVE GtHazyScan(_, _)
GtHazyScan(l, acc) ==
    IF l = <<>> THEN acc
    ELSE LET item == Head(l).name
             nxt == IF ~Head(l).isdir THEN acc
                    ELSE IF item = GT THEN <<item, acc[2]>>
                    ELSE IF item = hazy THEN <<acc[1], item>>
                    ELSE acc
         IN  GtHazyScan(Tail(l), nxt)

find_gt_hazy_folders(l) == GtHazyScan(l, <<None, None>>)

(***************************************************************************)
(* load_image: imread is "None" when the file does not decode              *)
(***************************************************************************)
load_image(imread) == IF imread # "None" THEN "rgb" ELSE "None"

(***************************************************************************)
(* find_image_file                                                         *)
(***************************************************************************)
Suffix_fromName(folder_name) == <<"_">> \o folder_name

Suffix(folder_name) == IF folder_name = GT THEN suffix_GT ELSE suffix_hazy

\* present: the names of the files that exist in folder_path
RECURSIVE ExtScan(_, _, _, _, _)
ExtScan(exts, folder_path, filename, suffix, present) ==
    IF exts = <<>> THEN [path |-> None, log |-> <<>>]
    ELSE LET full_path == join(folder_path, filename \o suffix \o Head(exts))
         IN  IF \E f \in present : join(folder_path, f) = full_path
             THEN [path |-> full_path, log |-> << <<"found", full_path>> >>]
             ELSE LET rest == ExtScan(Tail(exts), folder_path, filename,
                                      suffix, present)
                  IN  [path |-> rest.path,
                       log |-> << <<"not found", full_path>> >> \o rest.log]

find_image_file(folder_path, filename, folder_name, present) ==
    ExtScan(extensions, folder_path, filename, Suffix(folder_name), present)

(***************************************************************************)
(* matplotlib: the axes array of plt.subplots(num_rows, num_cols) is       *)
(* squeezed, and a wrong number of indices raises IndexError.              *)
(***************************************************************************)
AxesNdim(num_rows, num_cols) ==
    IF num_rows = 1 /\ num_cols = 1 THEN 0
    ELSE IF num_rows = 1 \/ num_cols = 1 THEN 1
    ELSE 2

\* the cell the code addresses at lines 96-99 and 108-111, or "IndexError"
AxAt(num_rows, num_cols, r, c) ==
    IF num_rows = 1
    THEN IF AxesNdim(num_rows, num_cols) = 1 /\ c < num_cols
         THEN <<0, c>> ELSE "IndexError"
    ELSE IF AxesNdim(num_rows, num_cols) = 2 /\ r < num_rows /\ c < num_cols
         THEN <<r, c>> ELSE "IndexError"

subplots(num, num_rows, num_cols) ==
    [num |-> num, rows |-> num_rows, cols |-> num_cols,
     axes |-> [p \in (0..(num_rows - 1)) \X (0..(num_cols - 1)) |-> <<>>],
     titles |-> <<>>]

NoFig == subplots(0, 0, 0)

\* the cells of a figure that hold the placeholder text
Placeholders(f) ==
    {p \in DOMAIN f.axes :
        \E k \in 1..Len(f.axes[p]) : f.axes[p][k] = "placeholder"}

NoCell == [row |-> 0 - 1, col |-> 0 - 1, image_path |-> None, img |-> "None",
           drawn |-> "nothing"]

NoRet == [fn |-> "none", args |-> <<>>, listing |-> <<>>, present |-> {},
          result |-> <<>>]

(***************************************************************************)
(* create_grid, lines 77-83                                                *)
(***************************************************************************)
Folders_noGT(hf, cf, gf) == <<hf>> \o cf

Folders(hf, cf, gf) == <<hf>> \o cf \o <<gf>>

ColumnLabels_shifted(cf) ==
    << <<"Hazy Input">> >>
      \o [i \in 1..Len(cf) |-> <<"Method ", chr(65 + i)>>]
      \o << <<"Reference (GT)">> >>

ColumnLabels(cf) ==
    << <<"Hazy Input">> >>
      \o [i \in 1..Len(cf) |-> <<"Method ", chr(64 + i)>>]
      \o << <<"Reference (GT)">> >>

NotFound_and(gf, hf) == ~Truthy(gf) /\ ~Truthy(hf)

\* line 70
NotFound(gf, hf) == ~Truthy(gf) \/ ~Truthy(hf)

BatchNum_zeroBased(idx) == idx \div 3

\* line 133
BatchNum(idx) == (idx \div 3) + 1

close_forgotten(figs, num) == figs

\* plt.close(fig) on the figures pyplot holds
close(figs, num) == figs \ {num}

BatchSlice_short(fn, idx) == SubSeq(fn, idx + 1, Min(idx + 2, Len(fn)))

\* filenames[batch_idx:batch_idx + 3]
BatchSlice(fn, idx) == SubSeq(fn, idx + 1, Min(idx + 3, Len(fn)))

\* imshow of a missing image raises
Draw_noGuard(image_path, img) ==
    IF Truthy(image_path) /\ img # "None" THEN "image" ELSE "TypeError"

Draw_noDecodeCheck(image_path, img) ==
    IF Truthy(image_path) THEN "image" ELSE "placeholder"

\* lines 113-122: what the cell body draws into its axes
Draw(image_path, img) ==
    IF Truthy(image_path)
    THEN IF img # "None" THEN "image" ELSE "placeholder"
    ELSE "placeholder"

\* the files of a folder that follow the naming convention of the dataset
GridFiles(folder, filename) ==
    {filename \o Suffix(folder) \o extensions[e] : e \in 1..Len(extensions)}

\* every file name find_image_file could be asked about
FolderFiles(filename) ==
    {filename \o s \o extensions[e] :
        s \in {suffix_GT, suffix_hazy}, e \in 1..Len(extensions)}

(***************************************************************************)
(* Initial state: nothing has been called.                                 *)
(***************************************************************************)
Init ==
    /\ pc = "idle"
    /\ root = {}
    /\ filenames = <<>>
    /\ custom_arg = NoneList
    /\ save_dir = None
    /\ gt_folder = None
    /\ hazy_folder = None
    /\ custom_folders = <<>>
    /\ folders = <<>>
    /\ column_labels = <<>>
    /\ batch_idx = 0
    /\ batch_filenames = <<>>
    /\ row = 0
    /\ col = 0
    /\ fig = NoFig
    /\ live = {}
    /\ nfigs = 0
    /\ cell = NoCell
    /\ made_dirs = {}
    /\ written = <<>>
    /\ shown = <<>>
    /\ batches = <<>>
    /\ refused = FALSE
    /\ raised = FALSE
    /\ ret = NoRet

gridVars == <<filenames, custom_arg, save_dir, gt_folder, hazy_folder,
              custom_folders, folders, column_labels, batch_idx,
              batch_filenames, row, col, fig, live, nfigs, cell, made_dirs,
              written, shown, batches, refused, raised>>

(***************************************************************************)
(* Direct calls of the helper functions.                                   *)
(***************************************************************************)
CallFindCustomFolders ==
    /\ pc = "idle"
    /\ \E r \in Roots(EntryNames) :
        /\ root' = r
        /\ \E l \in listdir(r) :
            ret' = [fn |-> "find_custom_folders", args |-> <<dataset_dir>>,
                    listing |-> l, present |-> {},
                    result |-> find_custom_folders(l)]
    /\ pc' = "returned"
    /\ UNCHANGED gridVars

CallFindGtHazyFolders ==
    /\ pc = "idle"
    /\ \E r \in Roots(EntryNames) :
        /\ root' = r
        /\ \E l \in listdir(r) :
            ret' = [fn |-> "find_gt_hazy_folders", args |-> <<dataset_dir>>,
                    listing |-> l, present |-> {},
                    result |-> find_gt_hazy_folders(l)]
    /\ pc' = "returned"
    /\ UNCHANGED gridVars

CallFindImageFile ==
    /\ pc = "idle"
    /\ \E folder_name \in EntryNames, i \in 1..2 :
        \E present \in SUBSET FolderFiles(MainFilenames[i]) :
            LET r == find_image_file(join(dataset_dir, folder_name),
                                     MainFilenames[i], folder_name, present)
            IN  ret' = [fn |-> "find_image_file",
                        args |-> <<join(dataset_dir, folder_name),
                                   MainFilenames[i], folder_name>>,
                        listing |-> <<>>, present |-> present,
                        result |-> <<r.path, r.log>>]
    /\ pc' = "returned"
    /\ UNCHANGED <<root, gridVars>>

CallLoadImage ==
    /\ pc = "idle"
    /\ \E imread \in {"bgr", "None"} :
        ret' = [fn |-> "load_image", args |-> <<imread>>, listing |-> <<>>,
                present |-> {},
                result |-> <<load_image(imread)>>]
    /\ pc' = "returned"
    /\ UNCHANGED <<root, gridVars>>

(***************************************************************************)
(* create_grid                                                             *)
(***************************************************************************)
\* lines 64-68: the call, and the discovery of the base folders
CreateGrid ==
    /\ pc = "idle"
    /\ \E r \in Roots(DatasetNames), n \in 0..MaxFiles, cf \in CallerLists,
          sd \in SaveDirs :
        /\ root' = r
        /\ filenames' = SubSeq(MainFilenames, 1, n)
        /\ custom_arg' = cf
        /\ save_dir' = sd
        /\ \E l \in listdir(r) :
            /\ gt_folder' = find_gt_hazy_folders(l)[1]
            /\ hazy_folder' = find_gt_hazy_folders(l)[2]
    /\ pc' = "discovered"
    /\ UNCHANGED <<custom_folders, folders, column_labels, batch_idx,
                   batch_filenames, row, col, fig, live, nfigs, cell,
                   made_dirs, written, shown, batches, refused, raised, ret>>

\* lines 70-72
Refuse ==
    /\ pc = "discovered"
    /\ NotFound(gt_folder, hazy_folder)
    /\ refused' = TRUE
    /\ pc' = "done"
    /\ UNCHANGED <<root, filenames, custom_arg, save_dir, gt_folder,
                   hazy_folder, custom_folders, folders, column_labels,
                   batch_idx, batch_filenames, row, col, fig, live, nfigs,
                   cell, made_dirs, written, shown, batches, raised, ret>>

\* lines 74-83.  dataset_dir is not listed again after line 75: its entries
\* leave the state here.
Setup ==
    /\ pc = "discovered"
    /\ ~NotFound(gt_folder, hazy_folder)
    /\ \E l \in listdir(root) :
        LET cf == IF custom_arg = NoneList THEN find_custom_folders(l)
                  ELSE custom_arg
        IN  /\ custom_folders' = cf
            /\ folders' = Folders(hazy_folder, cf, gt_folder)
            /\ column_labels' = ColumnLabels(cf)
    /\ root' = {}
    /\ batch_idx' = 0
    /\ pc' = "for"
    /\ UNCHANGED <<filenames, custom_arg, save_dir, gt_folder, hazy_folder,
                   batch_filenames, row, col, fig, live, nfigs, cell,
                   made_dirs, written, shown, batches, refused, raised, ret>>

\* lines 86-101: the next batch, its figure and the column labels
BatchStart ==
    /\ pc = "for"
    /\ batch_idx < Len(filenames)
    /\ LET bf == BatchSlice(filenames, batch_idx)
           num_cols == Len(folders)
           num_rows == Len(bf)
           f == subplots(nfigs + 1, num_rows, num_cols)
           bad == \E c \in 0..(Len(column_labels) - 1) :
                      AxAt(num_rows, num_cols, 0, c) = "IndexError"
       IN  /\ batch_filenames' = bf
           /\ batches' = Append(batches, bf)
           /\ nfigs' = nfigs + 1
           /\ live' = live \cup {nfigs + 1}
           /\ IF bad
              THEN /\ fig' = f
                   /\ raised' = TRUE
                   /\ pc' = "done"
              ELSE /\ fig' = [f EXCEPT !.titles = column_labels]
                   /\ raised' = raised
                   /\ pc' = "cells"
    /\ row' = 0
    /\ col' = 0
    /\ cell' = NoCell
    /\ UNCHANGED <<root, filenames, custom_arg, save_dir, gt_folder,
                   hazy_folder, custom_folders, folders, column_labels,
                   batch_idx, made_dirs, written, shown, refused, ret>>

\* line 86 when the range is exhausted
Return ==
    /\ pc = "for"
    /\ batch_idx >= Len(filenames)
    /\ pc' = "done"
    /\ UNCHANGED <<root, filenames, custom_arg, save_dir, gt_folder,
                   hazy_folder, custom_folders, folders, column_labels,
                   batch_idx, batch_filenames, row, col, fig, live, nfigs,
                   cell, made_dirs, written, shown, batches, refused, raised,
                   ret>>

\* lines 105-127: the body of the two loops for one (row, col)
Cell ==
    /\ pc = "cells"
    /\ LET filename == batch_filenames[row + 1]
           folder == folders[col + 1]
           folder_path == join(dataset_dir, folder)
       IN  \E present \in SUBSET GridFiles(folder, filename),
              imread \in {"bgr", "None"} :
            LET image_path == find_image_file(folder_path, filename, folder,
                                              present).path
                img == IF Truthy(image_path) THEN load_image(imread)
                       ELSE "None"
                ax == AxAt(fig.rows, fig.cols, row, col)
                drawn == Draw(image_path, img)
                last == row = fig.rows - 1 /\ col = fig.cols - 1
            IN  /\ Truthy(image_path) \/ imread = "None"
                /\ drawn = "placeholder"
                       => Cardinality(Placeholders(fig)) < MaxMissing
                /\ IF ax = "IndexError" \/ drawn = "TypeError"
                   THEN /\ raised' = TRUE
                        /\ pc' = "done"
                        /\ UNCHANGED <<fig, cell, row, col>>
                   ELSE /\ fig' = [fig EXCEPT !.axes[ax] = Append(@, drawn)]
                        /\ cell' = [row |-> row, col |-> col,
                                    image_path |-> image_path, img |-> img,
                                    drawn |-> drawn]
                        /\ raised' = raised
                        /\ IF last THEN /\ pc' = "layout"
                                        /\ UNCHANGED <<row, col>>
                           ELSE IF col = fig.cols - 1
                           THEN /\ row' = row + 1
                                /\ col' = 0
                                /\ pc' = pc
                           ELSE /\ col' = col + 1
                                /\ row' = row
                                /\ pc' = pc
    /\ UNCHANGED <<root, filenames, custom_arg, save_dir, gt_folder,
                   hazy_folder, custom_folders, folders, column_labels,
                   batch_idx, batch_filenames, live, nfigs, made_dirs,
                   written, shown, batches, refused, ret>>

\* lines 129-137
Save ==
    /\ pc = "layout"
    /\ Truthy(save_dir)
    /\ LET batch_num == BatchNum(batch_idx)
           save_path == join(save_dir,
                             <<"grid_batch_">> \o str(batch_num) \o <<".png">>)
       IN  /\ made_dirs' = made_dirs \cup {save_dir}
           /\ written' = Append(written, save_path)
    /\ live' = close(live, fig.num)
    /\ batch_idx' = batch_idx + 3
    /\ pc' = "for"
    /\ UNCHANGED <<root, filenames, custom_arg, save_dir, gt_folder,
                   hazy_folder, custom_folders, folders, column_labels,
                   batch_filenames, row, col, fig, nfigs, cell, shown,
                   batches, refused, raised, ret>>

\* line 139.  plt.show() does not close the figure: an interactive backend
\* destroys it when the user closes the window, any other backend returns
\* with the figure still registered.
Show ==
    /\ pc = "layout"
    /\ ~Truthy(save_dir)
    /\ shown' = Append(shown, fig.num)
    /\ \E closed \in BOOLEAN :
        live' = IF closed THEN live \ {fig.num} ELSE live
    /\ batch_idx' = batch_idx + 3
    /\ pc' = "for"
    /\ UNCHANGED <<root, filenames, custom_arg, save_dir, gt_folder,
                   hazy_folder, custom_folders, folders, column_labels,
                   batch_filenames, row, col, fig, nfigs, cell, made_dirs,
                   written, batches, refused, raised, ret>>

Next ==
    \/ CallFindCustomFolders
    \/ CallFindGtHazyFolders
    \/ CallFindImageFile
    \/ CallLoadImage
    \/ CreateGrid
    \/ Refuse
    \/ Setup
    \/ BatchStart
    \/ Return
    \/ Cell
    \/ Save
    \/ Show

Spec == Init /\ [][Next]_vars

\* the steps of create_grid after the call
GridStep ==
    Refuse \/ Setup \/ BatchStart \/ Return \/ Cell \/ Save \/ Show

(***************************************************************************)
(* Properties.                                                             *)
(***************************************************************************)
CeilDiv3(n) == (n + 2) \div 3

RECURSIVE Flatten(_)
Flatten(ss) == IF ss = <<>> THEN <<>> ELSE Head(ss) \o Flatten(Tail(ss))

\* create_grid got past line 72
Proceeded == pc \in {"for", "cells", "layout"} \/ (pc = "done" /\ ~refused)

\* create_grid returned from the end of its loop
Completed == pc = "done" /\ ~refused /\ ~raised

\* C1: for an identifier list of length N, create_grid forms ceil(N/3)
\* batches; the k-th batch is the slice of positions 3(k-1) .. min(3k,N)-1
\* in the original order, so the batches partition the list in order.
C1_BatchesPartition ==
    LET N == Len(filenames)
    IN  /\ \A k \in 1..Len(batches) :
            /\ Len(batches[k]) = Min(3 * k, N) - 3 * (k - 1)
            /\ Len(batches[k]) \in 1..3
            /\ \A j \in 1..Len(batches[k]) :
                   batches[k][j] = filenames[3 * (k - 1) + j]
        /\ Len(batches) <= CeilDiv3(N)
        /\ Completed => /\ Len(batches) = CeilDiv3(N)
                        /\ Flatten(batches) = filenames

C1_Witness ==
    /\ Completed
    /\ Len(filenames) = 4
    /\ Len(batches) = 2
    /\ Len(batches[1]) = 3
    /\ batches[2] = <<filenames[4]>>

\* C4: the canvas of every batch has 1 + |method folders| + 1 columns and
\* len(batch) rows (1, 2 or 3), whatever images were found.
C4_CanvasShape ==
    nfigs > 0 =>
        /\ fig.cols = 1 + Len(custom_folders) + 1
        /\ fig.rows = Len(batches[Len(batches)])
        /\ fig.rows \in 1..3
        /\ DOMAIN fig.axes = (0..(fig.rows - 1)) \X (0..(fig.cols - 1))
        /\ Cardinality(DOMAIN fig.axes) = fig.rows * (Len(custom_folders) + 2)

C4_Witness ==
    /\ pc = "layout"
    /\ Len(custom_folders) = 2
    /\ fig.rows = 1
    /\ fig.cols = 4
    /\ Placeholders(fig) # {}

\* C5: find_gt_hazy_folders reports None for exactly the absent one(s) of
\* 'GT' and 'hazy', each independently of the other, and create_grid then
\* returns without raising and without a canvas, an output directory or a
\* written file.
C5_MissingBaseFolder ==
    /\ (pc = "discovered" \/ refused) =>
        /\ gt_folder = (IF IsDir(root, GT) THEN GT ELSE None)
        /\ hazy_folder = (IF IsDir(root, hazy) THEN hazy ELSE None)
    /\ ret.fn = "find_gt_hazy_folders" =>
        /\ ret.result[1] = (IF IsDir(root, GT) THEN GT ELSE None)
        /\ ret.result[2] = (IF IsDir(root, hazy) THEN hazy ELSE None)
    /\ Proceeded => gt_folder = GT /\ hazy_folder = hazy
    /\ refused =>
        /\ pc = "done"
        /\ ~raised
        /\ nfigs = 0 /\ live = {} /\ fig = NoFig
        /\ made_dirs = {} /\ written = <<>> /\ shown = <<>>
        /\ batches = <<>>

C5_Witness ==
    /\ refused
    /\ IsDir(root, GT)
    /\ [name |-> hazy, isdir |-> FALSE] \in root
    /\ save_dir = output_grids
    /\ Len(filenames) = 4

\* C8: find_custom_folders returns, in lexicographic order, exactly the
\* subdirectories whose name ends with '_hazy' or starts with 'results_';
\* plain files, 'hazy' and 'GT' are never returned, and an empty result is
\* returned as such.
C8_CustomFolders ==
    ret.fn = "find_custom_folders" =>
        LET want == {n \in {b_hazy, results_1} : IsDir(root, n)}
            r == ret.result
        IN  /\ {r[i] : i \in 1..Len(r)} = want
            /\ Len(r) = Cardinality(want)
            /\ r \in {<<>>, <<b_hazy>>, <<results_1>>, <<b_hazy, results_1>>}

C8_Witness ==
    /\ ret.fn = "find_custom_folders"
    /\ ret.result = <<b_hazy, results_1>>
    /\ ret.listing[1].name = results_1
    /\ IsDir(root, hazy)
    /\ IsDir(root, xhazy)

C8_WitnessEmpty ==
    /\ ret.fn = "find_custom_folders"
    /\ ret.result = <<>>
    /\ [name |-> b_hazy, isdir |-> FALSE] \in root

AllDrawnOnce(f) ==
    \A p \in DOMAIN f.axes :
        Len(f.axes[p]) = 1 /\ f.axes[p][1] \in {"image", "placeholder"}

\* the file names of the first batches, written out
GridBatchNames ==
    << <<"grid_batch_", "1", ".png">>, <<"grid_batch_", "2", ".png">>,
       <<"grid_batch_", "3", ".png">> >>

\* the number of steps create_grid has left when r identifiers remain
StepsFor(r) == r * Len(folders) + 2 * CeilDiv3(r) + 1

\* the number of steps create_grid has left in the current state
StepsLeft ==
    LET after == StepsFor(Len(filenames) - batch_idx - fig.rows)
    IN  CASE pc = "for" ->
                 IF batch_idx < Len(filenames)
                 THEN StepsFor(Len(filenames) - batch_idx) ELSE 1
          [] pc = "cells" ->
                 (fig.rows * fig.cols - (row * fig.cols + col)) + 1 + after
          [] pc = "layout" -> 1 + after
          [] OTHER -> 0

\* C2: when both base folders exist and an output directory is given, a
\* call of create_grid runs to completion and saves every one of the
\* ceil(N/3) batches, whichever images are missing: no step raises, every
\* state before the end has a next step, every step brings the end
\* nearer, and at the end all batches are saved.
C2_MissingNeverAborts ==
    /\ [](  Truthy(save_dir) =>
              /\ (pc = "discovered" /\ IsDir(root, GT) /\ IsDir(root, hazy))
                    => ENABLED Setup
              /\ Proceeded =>
                    /\ ~raised
                    /\ pc # "done" => ENABLED GridStep
                    /\ pc = "done" =>
                          /\ Len(batches) = CeilDiv3(Len(filenames))
                          /\ Len(written) = CeilDiv3(Len(filenames))
                          /\ \A n \in 1..Len(written) :
                                 written[n]
                                     = save_dir \o <<"/">> \o GridBatchNames[n])
    /\ [][(pc = "discovered" /\ IsDir(root, GT) /\ IsDir(root, hazy))
             => (pc' = "for")]_vars
    /\ [][(pc \in {"for", "cells", "layout"} /\ Truthy(save_dir))
             => (StepsLeft' < StepsLeft)]_vars

C2_Witness ==
    /\ Completed
    /\ Truthy(save_dir)
    /\ Len(written) = 2
    /\ Placeholders(fig) # {}
    /\ cell.image_path = None

\* C3: when a canvas is saved or shown every one of its cells has been
\* rendered exactly once: the decoded image iff the path resolved and the
\* file decoded, the placeholder otherwise; no cell is left empty.
C3_CellsRendered ==
    /\ (pc = "layout" \/ (pc \in {"for", "done"} /\ nfigs > 0 /\ ~raised))
          => AllDrawnOnce(fig)
    /\ pc = "cells" =>
          \A p \in DOMAIN fig.axes :
              Len(fig.axes[p]) =
                  IF p[1] < row \/ (p[1] = row /\ p[2] < col) THEN 1 ELSE 0
    /\ cell # NoCell =>
          /\ fig.axes[<<cell.row, cell.col>>] = <<cell.drawn>>
          /\ (cell.drawn = "image")
                <=> (cell.image_path # None /\ cell.img = "rgb")
          /\ (cell.drawn = "placeholder")
                <=> (cell.image_path = None \/ cell.img = "None")

C3_Witness ==
    /\ pc = "layout"
    /\ fig.rows = 3
    /\ fig.cols = 3
    /\ cell.image_path # None
    /\ cell.img = "None"
    /\ cell.drawn = "placeholder"
    /\ Placeholders(fig) = {<<2, 2>>}
    /\ fig.axes[<<0, 0>>] = <<"image">>

\* C6: with an output directory, batch n is written to
\* output_dir/grid_batch_<n>.png after all of its cells and before any cell
\* of batch n+1, so a full run writes grid_batch_1 .. grid_batch_ceil(N/3)
\* in increasing n; without an output directory nothing is created.
C6_SavedInOrder ==
    /\ Truthy(save_dir) =>
        /\ \A n \in 1..Len(written) :
               written[n] = save_dir \o <<"/">> \o GridBatchNames[n]
        /\ pc = "cells" \/ pc = "layout" => Len(written) = Len(batches) - 1
        /\ pc = "for" => /\ Len(written) = Len(batches)
                         /\ Len(written) > 0 => AllDrawnOnce(fig)
                         /\ batch_idx = 3 * Len(written)
        /\ Completed => Len(written) = CeilDiv3(Len(filenames))
        /\ made_dirs \subseteq {save_dir}
        /\ shown = <<>>
    /\ ~Truthy(save_dir) => written = <<>> /\ made_dirs = {}

C6_Witness ==
    /\ Completed
    /\ save_dir = output_grids
    /\ Len(filenames) = 4
    /\ written = <<output_grids \o <<"/", "grid_batch_", "1", ".png">>,
                   output_grids \o <<"/", "grid_batch_", "2", ".png">> >>
    /\ made_dirs = {output_grids}

C6_WitnessShow ==
    /\ Completed
    /\ save_dir = None
    /\ Len(shown) = 2

IsSorted(ss) == \A i, j \in 1..Len(ss) : i < j => StrLess(ss[i], ss[j])

MethodLetters == <<"A", "B", "C", "D">>

LabelsMatch ==
    /\ Len(column_labels) = Len(folders)
    /\ column_labels[1] = <<"Hazy Input">>
    /\ column_labels[Len(column_labels)] = <<"Reference (GT)">>
    /\ \A i \in 1..(Len(folders) - 2) :
           column_labels[i + 1] = <<"Method ", MethodLetters[i]>>
    /\ nfigs > 0 /\ ~raised => fig.titles = column_labels /\ Len(fig.titles) = fig.cols

\* C7 as stated: for every call, the columns are [hazy] + [method folders in
\* sorted order] + [reference], each with its one label.
C7_ColumnsSortedAlways ==
    Proceeded =>
        /\ folders[1] = hazy
        /\ folders[Len(folders)] = GT
        /\ IsSorted(SubSeq(folders, 2, Len(folders) - 1))
        /\ LabelsMatch

\* C7 amended: the columns are [hazy] + custom_folders + [reference], where
\* custom_folders is the caller's list in the caller's order when one is
\* passed and the discovered list, which is sorted, otherwise; each column
\* has its one label.
C7_ColumnsInGivenOrder ==
    Proceeded =>
        /\ folders = <<hazy>> \o custom_folders \o <<GT>>
        /\ custom_arg # NoneList => custom_folders = custom_arg
        /\ custom_arg = NoneList =>
              /\ IsSorted(custom_folders)
              /\ custom_folders \in {<<>>, <<b_hazy>>, <<results_1>>,
                                     <<b_hazy, results_1>>}
        /\ LabelsMatch

C7_Witness ==
    /\ Proceeded
    /\ custom_arg = <<results_1, b_hazy>>
    /\ folders = <<hazy, results_1, b_hazy, GT>>
    /\ column_labels = << <<"Hazy Input">>, <<"Method ", "A">>,
                          <<"Method ", "B">>, <<"Reference (GT)">> >>
    /\ nfigs > 0

C7_WitnessDiscovered ==
    /\ Proceeded
    /\ custom_arg = NoneList
    /\ folders = <<hazy, b_hazy, results_1, GT>>

\* C10 as stated: at every point of a run at most one canvas is live, and
\* none remains live when the run ends.
C10_OneCanvasAlways ==
    /\ Cardinality(live) <= 1
    /\ pc = "done" => live = {}

\* C10 amended: when an output directory is given, at most one canvas is
\* live at every point of the run, the canvas of batch n is released before
\* the canvas of batch n+1 is created, and none is live when the run ends.
C10_OneCanvasWhenSaving ==
    Truthy(save_dir) =>
        /\ Cardinality(live) <= 1
        /\ pc \in {"cells", "layout"} => live = {fig.num} /\ fig.num = nfigs
        /\ pc = "for" => live = {}
        /\ Completed => live = {}
        /\ nfigs = Len(batches)

C10_Witness ==
    /\ Truthy(save_dir)
    /\ pc = "cells"
    /\ nfigs = 2
    /\ live = {2}

====
